---- MODULE Spec2Model ----
\* A model of the simulation prototype scheduler (src/scheduler.py):
\* Scheduler.schedule() drives Scheduler.tick() once per time slot; every tick
\* formulates a binary program over the (observation, site) pairs that can run
\* in the slot, lets the solver pick an optimal solution, and registers the
\* work done on the selected observations.
EXTENDS Integers, Sequences, FiniteSets, TLC

\* ---------------------------------------------------------------- bounds
NumJobs == 2          \* observations added before schedule() is called
NumSlots == 2         \* the timeslots argument of Scheduler(...)
MaxLength == 2        \* timeslot_length is drawn from 1..MaxLength
MaxObsTime == 2       \* obs_time is drawn from 1..MaxObsTime
MaxPriority == 2      \* priority is drawn from 1..MaxPriority
MaxId == 110          \* ids given to to_schedule_id in the identifier runs

\* ---------------------------------------------------------------- state
VARIABLES
    timeslots,          \* Scheduler.timeslots
    timeslot_length,    \* Scheduler.timeslot_length
    priority,           \* observations.priority[id]
    obs_time,           \* observations.obs_time[id]
    used_time,          \* observations.used_time[id]
    valid_site_times,   \* valid_site_times[id] is the set
                        \* observations.valid_site_times[id][timeslot]
    slot_keys,          \* the slots 0 .. slot_keys-1 are the keys of every
                        \* observations.valid_site_times[id]
    timeslot,           \* the loop variable of schedule()
    scheduling,         \* the list schedule() accumulates and returns
    pc,                 \* "run", "returned" or "raised": where schedule() is
    status,             \* the outcome of the last m.optimize()
    step,               \* where tick() is: "idle" between ticks, then
                        \* "advanced", "formulated", "solved"
    hook_calls,         \* the arguments of the calls of observations.tick
    model_vars,         \* the keys of vs of the model under construction
    solution,           \* the variables with X == 1 after m.optimize()
    sid_arg,            \* identifier runs: the (id, site) under conversion
    sid_str,            \* identifier runs: the string to_schedule_id returned
    sid_out             \* identifier runs: what from_schedule_id returned

vars == <<timeslots, timeslot_length, priority, obs_time, used_time,
          valid_site_times, slot_keys, timeslot, scheduling, pc, status,
          step, hook_calls, model_vars, solution,
          sid_arg, sid_str, sid_out>>

\* What schedule() and tick() never assign.
config == <<timeslots, timeslot_length, priority, obs_time, slot_keys>>

sidVars == <<sid_arg, sid_str, sid_out>>

\* The Model m of a tick: built, solved and dropped inside tick().
modelVars == <<model_vars, solution>>

\* ---------------------------------------------------------------- sites
\* resources.Site: the enumeration GN = 1, GS = 2.
Site == {"GN", "GS"}

\* Site.name as the characters "%s" writes.
SiteName(site) == IF site = "GN" THEN <<"G", "N">> ELSE <<"G", "S">>

\* SiteByName falling back to GS for a label that is not GN.
SiteByName_Lenient(label) == IF label = <<"G", "N">> THEN "GN" ELSE "GS"

\* resources.Site[label]: the member of that name, "KeyError" when none.
SiteByName(label) ==
    IF label = <<"G", "N">> THEN "GN"
    ELSE IF label = <<"G", "S">> THEN "GS"
    ELSE "KeyError"

Jobs == 0 .. (NumJobs - 1)

\* ---------------------------------------------------------------- identifiers
\* The digits "%d" writes.
DigitChars == <<"0", "1", "2", "3", "4", "5", "6", "7", "8", "9">>

\* The decimal digits int() reads besides those of DigitChars: every
\* character of Unicode's category Nd this module's strings can hold, one row
\* per script, 0 to 9.
OtherDigits ==
   <<
      <<"۰", "۱", "۲", "۳", "۴", "۵", "۶", "۷", "۸", "۹">>,
      <<"߀", "߁", "߂", "߃", "߄", "߅", "߆", "߇", "߈", "߉">>,
      <<"০", "১", "২", "৩", "৪", "৫", "৬", "৭", "৮", "৯">>,
      <<"૦", "૧", "૨", "૩", "૪", "૫", "૬", "૭", "૮", "૯">>,
      <<"௦", "௧", "௨", "௩", "௪", "௫", "௬", "௭", "௮", "௯">>,
      <<"೦", "೧", "೨", "೩", "೪", "೫", "೬", "೭", "೮", "೯">>,
      <<"෦", "෧", "෨", "෩", "෪", "෫", "෬", "෭", "෮", "෯">>,
      <<"໐", "໑", "໒", "໓", "໔", "໕", "໖", "໗", "໘", "໙">>,
      <<"႐", "႑", "႒", "႓", "႔", "႕", "႖", "႗", "႘", "႙">>,
      <<"០", "១", "២", "៣", "៤", "៥", "៦", "៧", "៨", "៩">>,
      <<"᧐", "᧑", "᧒", "᧓", "᧔", "᧕", "᧖", "᧗", "᧘", "᧙">>,
      <<"᪀", "᪁", "᪂", "᪃", "᪄", "᪅", "᪆", "᪇", "᪈", "᪉">>,
      <<"᪐", "᪑", "᪒", "᪓", "᪔", "᪕", "᪖", "᪗", "᪘", "᪙">>,
      <<"᮰", "᮱", "᮲", "᮳", "᮴", "᮵", "᮶", "᮷", "᮸", "᮹">>,
      <<"꣐", "꣑", "꣒", "꣓", "꣔", "꣕", "꣖", "꣗", "꣘", "꣙">>,
      <<"꧐", "꧑", "꧒", "꧓", "꧔", "꧕", "꧖", "꧗", "꧘", "꧙">>,
      <<"꧰", "꧱", "꧲", "꧳", "꧴", "꧵", "꧶", "꧷", "꧸", "꧹">>,
      <<"꯰", "꯱", "꯲", "꯳", "꯴", "꯵", "꯶", "꯷", "꯸", "꯹">>
   >>

IsDigit(c) ==
    \/ \E d \in 1 .. 10 : DigitChars[d] = c
    \/ \E r \in 1 .. Len(OtherDigits) : \E d \in 1 .. 10 : OtherDigits[r][d] = c

DigitValue(c) ==
    IF \E d \in 1 .. 10 : DigitChars[d] = c
    THEN (CHOOSE d \in 1 .. 10 : DigitChars[d] = c) - 1
    ELSE (CHOOSE d \in 1 .. 10 :
             \E r \in 1 .. Len(OtherDigits) : OtherDigits[r][d] = c) - 1

\* FormatInt writing the last digit only.
FormatInt_LastDigit(n) == <<DigitChars[(n % 10) + 1]>>

\* "%d" of an integer: a minus sign when negative, then the decimal digits,
\* most significant first.
RECURSIVE FormatInt(_)
FormatInt(n) ==
    IF n < 0 THEN <<"-">> \o FormatInt(0 - n)
    ELSE IF n < 10 THEN <<DigitChars[n + 1]>>
    ELSE FormatInt(n \div 10) \o <<DigitChars[(n % 10) + 1]>>

\* Scheduler.to_schedule_id: "obs_%d_%s" % (id, site.name)
to_schedule_id(id, site) ==
    <<"o", "b", "s", "_">> \o FormatInt(id) \o <<"_">> \o SiteName(site)

\* str.split('_'): the fields between the separators, empty fields included.
\* SplitFrom(s, i) is the fields of s from its character i on.
RECURSIVE SplitFrom(_, _)
SplitFrom(s, i) ==
    LET seps == {j \in i .. Len(s) : s[j] = "_"}
    IN  IF seps = {} THEN <<SubSeq(s, i, Len(s))>>
        ELSE LET j == CHOOSE k \in seps : \A l \in seps : k <= l
             IN  <<SubSeq(s, i, j - 1)>> \o SplitFrom(s, j + 1)

Split(s) == SplitFrom(s, 1)

\* The value of a run of decimal digits.
RECURSIVE DigitsValue(_)
DigitsValue(f) ==
    IF Len(f) = 0 THEN 0
    ELSE 10 * DigitsValue(SubSeq(f, 1, Len(f) - 1)) + DigitValue(f[Len(f)])

\* Blanks beyond space, tab, newline, return and form feed: U+000B, U+0085,
\* U+00A0 and U+1680.
LineTabulation == ""

NextLine == ""

NoBreakSpace == " "

OghamSpace == " "

\* The blanks int() strips from both ends of its argument: the six of ASCII
\* and those of Unicode beyond it.  U+2000 to U+200A, U+2028, U+2029, U+202F,
\* U+205F and U+3000 are blanks to int() as well; no string of this module
\* can hold them.  U+001C to U+001F are no blanks to int().
Whitespace ==
    {" ", "\t", "\n", "\r", "\f",
     LineTabulation, NextLine, NoBreakSpace, OghamSpace}

RECURSIVE StripLeft(_)
StripLeft(f) ==
    IF Len(f) > 0 /\ f[1] \in Whitespace THEN StripLeft(Tail(f)) ELSE f

RECURSIVE StripRight(_)
StripRight(f) ==
    IF Len(f) > 0 /\ f[Len(f)] \in Whitespace
    THEN StripRight(SubSeq(f, 1, Len(f) - 1))
    ELSE f

Strip(f) == StripRight(StripLeft(f))

\* The stripped field without its sign, if it has one.
IntBody(f) ==
    LET g == Strip(f)
    IN  IF Len(g) > 0 /\ g[1] \in {"+", "-"} THEN Tail(g) ELSE g

\* The longest run of digits int() converts (sys.int_max_str_digits of
\* CPython 3.11 and later); a longer one is a ValueError.
MaxStrDigits == 4300

\* Whether int(field) accepts the field: blanks, an optional sign, a
\* non-empty run of at most MaxStrDigits decimal digits, blanks.
\* (split('_') leaves no '_' in a field.)
IsIntField(f) ==
    LET b == IntBody(f)
    IN  /\ Len(b) > 0
        /\ Len(b) <= MaxStrDigits
        /\ \A i \in 1 .. Len(b) : IsDigit(b[i])

\* int(field) for a field int() accepts.
IntValue(f) ==
    IF Strip(f)[1] = "-" THEN 0 - DigitsValue(IntBody(f))
    ELSE DigitsValue(IntBody(f))

\* The exception from_schedule_id raises on scheduler_id, "none" when it
\* returns: fields[1] or fields[2] missing, int() refusing fields[1], or
\* Site having no member named fields[2].
DecodeError(scheduler_id) ==
    LET fields == Split(scheduler_id)
    IN  IF Len(fields) < 2 THEN "IndexError"
        ELSE IF ~IsIntField(fields[2]) THEN "ValueError"
        ELSE IF Len(fields) < 3 THEN "IndexError"
        ELSE IF SiteByName(fields[3]) = "KeyError" THEN "KeyError"
        ELSE "none"

\* Scheduler.from_schedule_id: fields = scheduler_id.split('_');
\* (int(fields[1]), resources.Site[fields[2]]).  Python indexes from 0.
from_schedule_id(scheduler_id) ==
    LET fields == Split(scheduler_id)
    IN  <<IntValue(fields[2]), SiteByName(fields[3])>>

\* ---------------------------------------------------------------- ledger
\* Observations.is_done(id): used_time >= obs_time.
is_done(id) == used_time[id] >= obs_time[id]

\* ---------------------------------------------------------------- formulation
\* LiveJobs without the is_done filter.
LiveJobs_All == Jobs

\* LiveJobs keeping an observation that has just reached obs_time.
LiveJobs_OffByOne == {id \in Jobs : used_time[id] <= obs_time[id]}

\* The observations tick() creates variables for: the incomplete ones.
LiveJobs == {id \in Jobs : ~is_done(id)}

\* Vs without the membership tests on valid_site_times.
Vs_AnySite == LiveJobs \X Site

\* Vs with the GS branch of the loop missing.
Vs_OnlyGN == {v \in LiveJobs \X {"GN"} : "GN" \in valid_site_times[v[1]]}

\* The keys of vs after the loop of tick(): one variable per incomplete
\* observation and site it can run at in this timeslot.
Vs == {v \in LiveJobs \X Site : v[2] \in valid_site_times[v[1]]}

gn_vs == {v \in Vs : v[2] = "GN"}

gs_vs == {v \in Vs : v[2] = "GS"}

\* NotBoth with the c_not_both constraints left out.
NotBoth_Dropped(X) == TRUE

\* OneAtGS with the second c_gn constraint left out.
OneAtGS_Dropped(X) == TRUE

\* An assignment X gives the variables in X the value 1 and the other
\* variables of Vs the value 0.
\* c_not_both_<id>, added when the observation has a variable for both
\* resources: vs[(id, GN)] + vs[(id, GS)] <= 1.
NotBoth(X) ==
    \A id \in Jobs : ~(<<id, "GN">> \in X /\ <<id, "GS">> \in X)

\* c_gn (the first of the name): sum(gn_vs) <= 1.
OneAtGN(X) == Cardinality({v \in X : v[2] = "GN"}) <= 1

\* c_gn (the second of the name): sum(gs_vs) <= 1.
OneAtGS(X) == Cardinality({v \in X : v[2] = "GS"}) <= 1

Feasible(X) == NotBoth(X) /\ OneAtGN(X) /\ OneAtGS(X)

\* The objective: sum of priority[id] * vs[(id, res)] over the keys of vs.
RECURSIVE Objective(_)
Objective(X) ==
    IF X = {} THEN 0
    ELSE LET v == CHOOSE w \in X : TRUE
         IN  priority[v[1]] + Objective(X \ {v})

\* Optimize with GRB.MINIMIZE.
Optimize_Minimize ==
    LET feasible == {X \in SUBSET Vs : Feasible(X)}
    IN  {X \in feasible : \A Y \in feasible : Objective(X) <= Objective(Y)}

\* m.optimize() with GRB.MAXIMIZE: the solutions the solver may return, the
\* feasible assignments of the largest objective.
Optimize ==
    LET feasible == {X \in SUBSET Vs : Feasible(X)}
    IN  {X \in feasible : \A Y \in feasible : Objective(Y) <= Objective(X)}

\* valid_site_times[id][timeslot] of the first incomplete observation the
\* loop visits: a KeyError when the mappings have no key for the slot.
MissingKey == LiveJobs # {} /\ timeslot >= slot_keys

\* sum(set()) <= 1 is the Python bool True, not a linear constraint: with no
\* variable for one of the sites, addConstr is handed a bool, which gurobipy
\* refuses with an exception.
TrivialConstr == gn_vs = {} \/ gs_vs = {}

\* m.getVars(): the variables in the order they were added, by observation
\* id and GN before GS.
RECURSIVE VarsFrom(_)
VarsFrom(id) ==
    IF id >= NumJobs THEN <<>>
    ELSE (IF <<id, "GN">> \in Vs THEN <<(<<id, "GN">>)>> ELSE <<>>)
         \o (IF <<id, "GS">> \in Vs THEN <<(<<id, "GS">>)>> ELSE <<>>)
         \o VarsFrom(id + 1)

getVars == VarsFrom(0)

\* [s_id.VarName for s_id in s_ids if s_id.X == 1]
RECURSIVE SelectedNames(_, _)
SelectedNames(vlist, X) ==
    IF vlist = <<>> THEN <<>>
    ELSE (IF Head(vlist) \in X
          THEN <<to_schedule_id(Head(vlist)[1], Head(vlist)[2])>>
          ELSE <<>>)
         \o SelectedNames(Tail(vlist), X)

\* do_work counting slots instead of seconds.
do_work_ByOne(used, scheduler_id) ==
    LET id == from_schedule_id(scheduler_id)[1]
    IN  [used EXCEPT ![id] = @ + 1]

\* do_work adding the slot to every observation.
do_work_All(used, scheduler_id) ==
    [id \in DOMAIN used |-> used[id] + timeslot_length]

\* observations.used_time[id] for the id of a decoded string.  The ledger is
\* a mapping from observation ids (a lookup of any other id raises); a
\* ledger that keeps used_time in a list takes -1 .. -NumJobs from its end.
UsedTimeRaises(id) == id \notin Jobs

UsedTimeIndex(id) ==
    IF id \in Jobs THEN {id}
    ELSE IF id < 0 /\ id + NumJobs \in Jobs THEN {id + NumJobs}
    ELSE {}

\* The exception do_work(scheduler_id) raises with the ledger a mapping:
\* that of from_schedule_id, or the KeyError of used_time[id]; "none" when
\* it returns.
do_work_error(scheduler_id) ==
    IF DecodeError(scheduler_id) # "none" THEN DecodeError(scheduler_id)
    ELSE IF UsedTimeRaises(from_schedule_id(scheduler_id)[1]) THEN "KeyError"
    ELSE "none"

\* Scheduler.do_work: used_time[from_schedule_id(scheduler_id)[0]] += length.
\* The ledger after the call, with the ledger a mapping: a call that raises
\* leaves it as it was.
do_work(used, scheduler_id) ==
    IF do_work_error(scheduler_id) # "none" THEN used
    ELSE LET id == from_schedule_id(scheduler_id)[1]
         IN  [used EXCEPT ![id] = @ + timeslot_length]

\* ApplyWork leaving the loop after the first name.
ApplyWork_FirstOnly(used, names) ==
    IF names = <<>> THEN used ELSE do_work(used, Head(names))

\* for c in current_scheduling: self.do_work(c).  The exception of the
\* first do_work that raises, which ends the loop; "none" when all return.
RECURSIVE ApplyWorkError(_)
ApplyWorkError(names) ==
    IF names = <<>> THEN "none"
    ELSE IF do_work_error(Head(names)) # "none"
         THEN do_work_error(Head(names))
         ELSE ApplyWorkError(Tail(names))

\* for c in current_scheduling: self.do_work(c).  The ledger after the
\* loop; the names after one whose do_work raises are not reached.
RECURSIVE ApplyWork(_, _)
ApplyWork(used, names) ==
    IF names = <<>> THEN used
    ELSE IF do_work_error(Head(names)) # "none" THEN used
    ELSE ApplyWork(do_work(used, Head(names)), Tail(names))

\* ---------------------------------------------------------------- initial states
\* The table observations.valid_site_times is an input that nothing assigns,
\* and tick(t) reads its column t only: the column of a slot is drawn when the
\* loop reaches the slot.  Past the last slot, or past the last key of the
\* mappings, there is nothing to read.
Columns(t, n) ==
    IF t < n /\ t < slot_keys
    THEN [Jobs -> SUBSET Site]
    ELSE {[id \in Jobs |-> {}]}

\* No tick under way, observations.tick not called yet, no Model.
TickIdle ==
    /\ step = "idle"
    /\ hook_calls = <<>>
    /\ model_vars = {}
    /\ solution = {}

SidIdle ==
    /\ sid_arg = <<0, "GN">>
    /\ sid_str = <<>>
    /\ sid_out = <<0, "GN">>

\* Scheduler(timeslots, timeslot_length), the observations added, and
\* schedule() entered: timeslot = 0, scheduling = [].
Started ==
    /\ priority \in [Jobs -> 1 .. MaxPriority]
    /\ obs_time \in [Jobs -> 1 .. MaxObsTime]
    /\ used_time = [id \in Jobs |-> 0]
    /\ valid_site_times \in Columns(0, timeslots)
    /\ timeslot = 0
    /\ scheduling = <<>>
    /\ pc = "run"
    /\ status = "none"
    /\ TickIdle
    /\ SidIdle

\* schedule() is about to run: positive timeslots and timeslot_length, and
\* eligibility mappings with a key for every slot or, as those of
\* run_simulation2, for every slot but the last.
Init ==
    /\ timeslots = NumSlots
    /\ timeslot_length \in 1 .. MaxLength
    /\ slot_keys \in {timeslots - 1, timeslots}
    /\ Started

\* ---------------------------------------------------------------- schedule()
\* One iteration of the loop of schedule() in which tick() reaches
\* m.optimize(): the solver returns an optimal solution X and the work is
\* registered; the schedule of the slot is appended and the loop moves to
\* the next slot, unless a do_work raised.
Tick ==
    /\ pc = "run"
    /\ timeslot < timeslots
    /\ ~MissingKey
    /\ ~TrivialConstr
    /\ \E X \in Optimize :
         LET current_scheduling == SelectedNames(getVars, X)
         IN  /\ used_time' = ApplyWork(used_time, current_scheduling)
             /\ IF ApplyWorkError(current_scheduling) = "none"
                THEN /\ scheduling' = Append(scheduling, current_scheduling)
                     /\ timeslot' = timeslot + 1
                     /\ valid_site_times' \in Columns(timeslot + 1, timeslots)
                     /\ pc' = pc
                ELSE /\ pc' = "raised"
                     /\ UNCHANGED <<scheduling, timeslot, valid_site_times>>
    /\ status' = "OPTIMAL"
    /\ hook_calls' = Append(hook_calls, timeslot)
    /\ UNCHANGED <<step, modelVars>>
    /\ UNCHANGED config
    /\ UNCHANGED sidVars

\* An iteration in which tick() raises before m.optimize(): the KeyError of
\* valid_site_times[id][timeslot], or m.addConstr(True, "c_gn").  The
\* exception leaves tick() and schedule(), nothing has been registered.
TickRaise ==
    /\ pc = "run"
    /\ timeslot < timeslots
    /\ (MissingKey \/ TrivialConstr)
    /\ pc' = "raised"
    /\ hook_calls' = Append(hook_calls, timeslot)
    /\ UNCHANGED <<step, modelVars>>
    /\ UNCHANGED <<used_time, valid_site_times, timeslot, scheduling, status>>
    /\ UNCHANGED config
    /\ UNCHANGED sidVars

\* Return with the loop left one slot early.
Return_Early ==
    /\ pc = "run"
    /\ timeslot >= timeslots - 1
    /\ pc' = "returned"
    /\ UNCHANGED <<step, hook_calls, modelVars>>
    /\ UNCHANGED <<used_time, valid_site_times, timeslot, scheduling, status>>
    /\ UNCHANGED config
    /\ UNCHANGED sidVars

\* The loop of schedule() ends and the schedule is returned.
Return ==
    /\ pc = "run"
    /\ timeslot >= timeslots
    /\ pc' = "returned"
    /\ UNCHANGED <<step, hook_calls, modelVars>>
    /\ UNCHANGED <<used_time, valid_site_times, timeslot, scheduling, status>>
    /\ UNCHANGED config
    /\ UNCHANGED sidVars

\* An iteration in which m.optimize() ends without a solution (the model
\* reported infeasible, or the solve interrupted before an incumbent): the
\* list comprehension reads s_id.X of every variable, and reading X without
\* a solution raises.  m.optimize() is reached with a variable for each
\* site, so there is an X to read.
TickNoSolution ==
    /\ pc = "run"
    /\ timeslot < timeslots
    /\ ~MissingKey
    /\ ~TrivialConstr
    /\ status' = "INFEASIBLE"
    /\ pc' = "raised"
    /\ hook_calls' = Append(hook_calls, timeslot)
    /\ UNCHANGED <<step, modelVars>>
    /\ UNCHANGED <<used_time, valid_site_times, timeslot, scheduling>>
    /\ UNCHANGED config
    /\ UNCHANGED sidVars

Next == Tick \/ TickRaise \/ Return

Spec == Init /\ [][Next]_vars

\* The solver as the interface describes it: a solve may end without a
\* solution.
NextSolver == Next \/ TickNoSolution

SpecSolver == Init /\ [][NextSolver]_vars

\* Any arguments of Scheduler(timeslots, timeslot_length), and eligibility
\* mappings that may have a key past the last slot: __init__ stores what it
\* is given.
InitConfig ==
    /\ timeslots \in -1 .. NumSlots
    /\ timeslot_length \in -1 .. MaxLength
    /\ slot_keys \in {IF timeslots > 0 THEN timeslots ELSE 0,
                      IF timeslots > 0 THEN timeslots + 1 ELSE 1}
    /\ Started

SpecConfig == InitConfig /\ [][Next]_vars

\* Valid configurations whose priorities may be zero; every observation
\* needs MaxObsTime seconds.
InitPriority ==
    /\ timeslots = NumSlots
    /\ timeslot_length \in 1 .. MaxLength
    /\ slot_keys = timeslots
    /\ priority \in [Jobs -> 0 .. MaxPriority]
    /\ obs_time = [id \in Jobs |-> MaxObsTime]
    /\ used_time = [id \in Jobs |-> 0]
    /\ valid_site_times \in Columns(0, timeslots)
    /\ timeslot = 0
    /\ scheduling = <<>>
    /\ pc = "run"
    /\ status = "none"
    /\ TickIdle
    /\ SidIdle

SpecPriority == InitPriority /\ [][Next]_vars

\* ---------------------------------------------------------------- tick(), statement by statement
\* What the steps of a tick leave alone.
StepFrame ==
    /\ UNCHANGED config
    /\ UNCHANGED sidVars

\* StepFormulate building the model without observations.tick called.
StepFormulate_NoHook ==
    /\ pc = "run"
    /\ step = "idle"
    /\ timeslot < timeslots
    /\ model_vars' = Vs
    /\ step' = "formulated"
    /\ UNCHANGED <<used_time, valid_site_times, timeslot, scheduling, pc,
                   status, hook_calls, solution>>
    /\ StepFrame

\* Observations.tick(timeslot), the hook of the ledger: it changes none of
\* the fields the scheduler reads.
observations_tick == UNCHANGED <<priority, obs_time, used_time>>

\* schedule() enters tick(timeslot): self.observations.tick(timeslot).
StepAdvance ==
    /\ pc = "run"
    /\ step = "idle"
    /\ timeslot < timeslots
    /\ hook_calls' = Append(hook_calls, timeslot)
    /\ observations_tick
    /\ step' = "advanced"
    /\ UNCHANGED <<valid_site_times, timeslot, scheduling, pc,
                   status, modelVars>>
    /\ UNCHANGED <<timeslots, timeslot_length, slot_keys>>
    /\ UNCHANGED sidVars

\* m = Model() and the loop that creates the variables and the c_not_both
\* constraints.
StepFormulate ==
    /\ pc = "run"
    /\ step = "advanced"
    /\ ~MissingKey
    /\ model_vars' = Vs
    /\ step' = "formulated"
    /\ UNCHANGED <<used_time, valid_site_times, timeslot, scheduling, pc,
                   status, hook_calls, solution>>
    /\ StepFrame

\* The loop raises at its first incomplete observation: the KeyError of
\* valid_site_times[id][timeslot].
StepKeyError ==
    /\ pc = "run"
    /\ step = "advanced"
    /\ MissingKey
    /\ pc' = "raised"
    /\ UNCHANGED <<used_time, valid_site_times, timeslot, scheduling,
                   status, step, hook_calls, modelVars>>
    /\ StepFrame

\* m.addConstr(True, "c_gn") raises.
StepRaise ==
    /\ pc = "run"
    /\ step = "formulated"
    /\ TrivialConstr
    /\ pc' = "raised"
    /\ UNCHANGED <<used_time, valid_site_times, timeslot, scheduling,
                   status, step, hook_calls, modelVars>>
    /\ StepFrame

\* The two site constraints, the objective, m.tune() and m.optimize().
StepSolve ==
    /\ pc = "run"
    /\ step = "formulated"
    /\ ~TrivialConstr
    /\ solution' \in Optimize
    /\ status' = "OPTIMAL"
    /\ step' = "solved"
    /\ UNCHANGED <<used_time, valid_site_times, timeslot, scheduling, pc,
                   hook_calls, model_vars>>
    /\ StepFrame

\* The selected names are collected, do_work registers each, tick()
\* returns them and schedule() appends them and moves to the next slot; a
\* do_work that raises leaves the loop, tick() and schedule().
StepApply ==
    /\ pc = "run"
    /\ step = "solved"
    /\ LET current_scheduling == SelectedNames(getVars, solution)
       IN  /\ used_time' = ApplyWork(used_time, current_scheduling)
           /\ IF ApplyWorkError(current_scheduling) = "none"
              THEN /\ scheduling' = Append(scheduling, current_scheduling)
                   /\ timeslot' = timeslot + 1
                   /\ valid_site_times' \in Columns(timeslot + 1, timeslots)
                   /\ step' = "idle"
                   /\ model_vars' = {}
                   /\ solution' = {}
                   /\ pc' = pc
              ELSE /\ pc' = "raised"
                   /\ UNCHANGED <<scheduling, timeslot, valid_site_times,
                                  step, modelVars>>
    /\ UNCHANGED <<status, hook_calls>>
    /\ StepFrame

NextSteps ==
    StepAdvance \/ StepFormulate \/ StepKeyError \/ StepRaise \/ StepSolve
    \/ StepApply
    \/ Return

SpecSteps == Init /\ [][NextSteps]_vars

\* ---------------------------------------------------------------- identifier runs
\* to_schedule_id applied to an integer and a site, from_schedule_id applied
\* to the result.  The integers include negative ones, whose strings carry
\* a sign.
InitIds ==
    /\ timeslots = 0
    /\ timeslot_length = 1
    /\ slot_keys = 0
    /\ priority = [id \in Jobs |-> 0]
    /\ obs_time = [id \in Jobs |-> 1]
    /\ used_time = [id \in Jobs |-> 0]
    /\ valid_site_times = [id \in Jobs |-> {}]
    /\ timeslot = 0
    /\ scheduling = <<>>
    /\ status = "none"
    /\ TickIdle
    /\ pc = "convert"
    /\ sid_arg \in ((0 - MaxId) .. MaxId) \X Site
    /\ sid_str = <<>>
    /\ sid_out = <<0, "GN">>

Encode ==
    /\ pc = "convert"
    /\ sid_str' = to_schedule_id(sid_arg[1], sid_arg[2])
    /\ pc' = "encoded"
    /\ UNCHANGED <<sid_arg, sid_out>>
    /\ UNCHANGED <<step, hook_calls, modelVars>>
    /\ UNCHANGED <<used_time, valid_site_times, timeslot, scheduling, status>>
    /\ UNCHANGED config

Decode ==
    /\ pc = "encoded"
    /\ IF DecodeError(sid_str) = "none"
       THEN /\ sid_out' = from_schedule_id(sid_str)
            /\ pc' = "decoded"
       ELSE /\ pc' = "raised"
            /\ UNCHANGED sid_out
    /\ UNCHANGED <<sid_arg, sid_str>>
    /\ UNCHANGED <<step, hook_calls, modelVars>>
    /\ UNCHANGED <<used_time, valid_site_times, timeslot, scheduling, status>>
    /\ UNCHANGED config

NextIds == Encode \/ Decode

SpecIds == InitIds /\ [][NextIds]_vars

\* ---------------------------------------------------------------- do_work runs
\* The strings handed to do_work: one to four fields joined by '_', the
\* fields taken from those of a schedule id and from damaged ones, among
\* them id fields with a sign or with blanks around the digits.
PrefixFields == {<<"o", "b", "s">>, <<>>}

\* An id field of one digit more than int() converts.
LongField == [i \in 1 .. (MaxStrDigits + 1) |-> "1"]

IdFields ==
    {<<"0">>, <<"1">>, <<"0", "1">>, <<"x">>, <<"1", "x">>, <<>>,
     <<"-", "1">>, <<"+", "1">>, <<"-", "0">>, <<"-", "9">>,
     <<" ", "1">>, <<"1", " ">>, <<"\t", "0", "\n">>, <<" ", "-", "1", " ">>,
     <<"-">>, <<" ">>, <<"-", " ", "1">>, <<"1", " ", "1">>, <<"+", "-", "1">>,
     <<LineTabulation, "1">>, <<"1", NoBreakSpace>>, <<NextLine, "1">>,
     <<" ", LineTabulation, "-", "1">>, <<OghamSpace, "0", "\r">>,
     <<OtherDigits[1][2]>>, <<"0", OtherDigits[3][2]>>,
     <<"+", OtherDigits[18][1], "\f">>,
     <<"1", LineTabulation, "1">>, <<NoBreakSpace>>, LongField}

SiteFields == {<<"G", "N">>, <<"G", "S">>, <<"G">>, <<"g", "n">>, <<>>}

WorkArgs ==
    PrefixFields
    \cup {p \o <<"_">> \o i : p \in PrefixFields, i \in IdFields}
    \cup {p \o <<"_">> \o i \o <<"_">> \o l :
            p \in PrefixFields, i \in IdFields, l \in SiteFields}
    \cup {p \o <<"_">> \o i \o <<"_">> \o l \o <<"_", "x">> :
            p \in PrefixFields, i \in IdFields, l \in SiteFields}

\* A scheduler with its observations, and do_work about to be called on
\* sid_str.
InitWork ==
    /\ timeslots = NumSlots
    /\ timeslot_length \in 1 .. MaxLength
    /\ slot_keys = timeslots
    /\ priority = [id \in Jobs |-> 1]
    /\ obs_time = [id \in Jobs |-> MaxObsTime]
    /\ used_time = [id \in Jobs |-> 0]
    /\ valid_site_times = [id \in Jobs |-> {}]
    /\ timeslot = 0
    /\ scheduling = <<>>
    /\ status = "none"
    /\ TickIdle
    /\ pc = "call"
    /\ sid_arg = <<0, "GN">>
    /\ sid_str \in WorkArgs
    /\ sid_out = <<0, "GN">>

\* Scheduler.do_work(sid_str): from_schedule_id is evaluated first and its
\* exception leaves do_work before the += ; so does a lookup of
\* used_time[id] that raises.  With used_time a list, an id of -1 .. -NumJobs
\* does not raise and the += lands at the end of the list.
DoWork ==
    /\ pc = "call"
    /\ \/ /\ do_work_error(sid_str) # "none"
          /\ pc' = "raised"
          /\ used_time' = do_work(used_time, sid_str)
       \/ /\ do_work_error(sid_str) = "none"
          /\ pc' = "worked"
          /\ used_time' = do_work(used_time, sid_str)
       \/ /\ DecodeError(sid_str) = "none"
          /\ UsedTimeRaises(from_schedule_id(sid_str)[1])
          /\ pc' = "worked"
          /\ \E i \in UsedTimeIndex(from_schedule_id(sid_str)[1]) :
                used_time' = [used_time EXCEPT ![i] = @ + timeslot_length]
    /\ UNCHANGED <<step, hook_calls, modelVars>>
    /\ UNCHANGED <<valid_site_times, timeslot, scheduling, status>>
    /\ UNCHANGED config
    /\ UNCHANGED sidVars

NextWork == DoWork

SpecWork == InitWork /\ [][NextWork]_vars

\* ---------------------------------------------------------------- reading a schedule
\* The (id, site) pairs a returned list of schedule ids stands for.
PairsOf(assignment) ==
    {from_schedule_id(assignment[i]) : i \in 1 .. Len(assignment)}

JobsOf(assignment) == {p[1] : p \in PairsOf(assignment)}

\* This step is an iteration in which tick(timeslot) returned.
TickReturned == Len(scheduling') = Len(scheduling) + 1

\* What tick(timeslot) returned in this step.
Returned == scheduling'[Len(scheduling')]

\* ---------------------------------------------------------------- C1
\* C1 (exclusivity): the list tick(t) returns holds no site twice and no
\* observation twice; an observation that can run at GN and at GS in the
\* slot is never given both.
C1_Exclusivity ==
    [][TickReturned =>
        \A i, j \in 1 .. Len(Returned) :
            i # j =>
                /\ from_schedule_id(Returned[i])[1] # from_schedule_id(Returned[j])[1]
                /\ from_schedule_id(Returned[i])[2] # from_schedule_id(Returned[j])[2]]_vars

\* Both sites were given out in one slot, to two observations.
C1_Witness ==
    \E t \in 1 .. Len(scheduling) :
        /\ Len(scheduling[t]) = 2
        /\ Cardinality(JobsOf(scheduling[t])) = 2
        /\ {p[2] : p \in PairsOf(scheduling[t])} = Site

\* ---------------------------------------------------------------- C2
\* C2 (eligibility): every (id, site) in the list tick(t) returns has site in
\* valid_site_times[id][t]; an observation with no site in slot t is not in it.
C2_Eligibility ==
    [][TickReturned =>
        /\ \A p \in PairsOf(Returned) : p[2] \in valid_site_times[p[1]]
        /\ \A id \in Jobs :
              valid_site_times[id] = {} => id \notin JobsOf(Returned)]_vars

\* A slot was scheduled with one observation only, at GS.
C2_Witness ==
    \E t \in 1 .. Len(scheduling) :
        /\ Len(scheduling[t]) = 1
        /\ from_schedule_id(scheduling[t][1])[2] = "GS"

\* ---------------------------------------------------------------- C3
\* C3 (monotonic progress): over every step used_time of an observation is
\* unchanged or larger by exactly timeslot_length; it never decreases.
C3_MonotonicProgress ==
    [][\A id \in Jobs :
          /\ used_time'[id] >= used_time[id]
          /\ \/ used_time'[id] = used_time[id]
             \/ used_time'[id] = used_time[id] + timeslot_length]_vars

\* After two ticks an observation has worked in exactly one of them.
C3_Witness ==
    /\ timeslot = 2
    /\ \E id \in Jobs :
          /\ used_time[id] = timeslot_length
          /\ timeslot_length > 1
          /\ id \in JobsOf(scheduling[2])
          /\ id \notin JobsOf(scheduling[1])

\* ---------------------------------------------------------------- C4
\* C4 (completion stability): an observation that is done stays done over
\* every step, and is not in the list a later tick returns.
C4_CompletionStability ==
    [][\A id \in Jobs :
          is_done(id) =>
              /\ used_time'[id] >= obs_time'[id]
              /\ TickReturned => id \notin JobsOf(Returned)]_vars

\* An observation completed by its work in the first slot, and the second
\* tick returned a schedule without it.
C4_Witness ==
    /\ timeslot = 2
    /\ scheduling[2] # <<>>
    /\ \E id \in Jobs :
          /\ id \in JobsOf(scheduling[1])
          /\ id \notin JobsOf(scheduling[2])
          /\ used_time[id] = timeslot_length
          /\ is_done(id)

\* ---------------------------------------------------------------- C5
\* The assignments of slot t that respect eligibility, one site per
\* observation and one observation per site among the incomplete
\* observations: gn runs at GN and gs at GS, -1 standing for an idle site.
CanRun(id, site) ==
    id = -1 \/ (~is_done(id) /\ site \in valid_site_times[id])

Admissible(gn, gs) ==
    /\ CanRun(gn, "GN")
    /\ CanRun(gs, "GS")
    /\ gn = gs => gn = -1

PriorityOf(id) == IF id = -1 THEN 0 ELSE priority[id]

RECURSIVE WeightFrom(_, _)
WeightFrom(assignment, i) ==
    IF i > Len(assignment) THEN 0
    ELSE priority[from_schedule_id(assignment[i])[1]]
         + WeightFrom(assignment, i + 1)

\* Two observations of priorities low and high run only at the one site
\* and no other observation can run in the slot.
ScenarioA(low, high, site) ==
    /\ low # high
    /\ priority[low] = 1
    /\ priority[high] = 2
    /\ ~is_done(low)
    /\ ~is_done(high)
    /\ valid_site_times[low] = {site}
    /\ valid_site_times[high] = {site}
    /\ \A id \in Jobs \ {low, high} : valid_site_times[id] = {}

\* C5 (priority-optimal slot assignment): tick(t) returns a list with the
\* largest sum of priorities among the admissible assignments of the slot;
\* with two observations of priorities 1 and 2 that run only at one shared
\* site, it returns the priority-2 observation at that site alone.
C5_PriorityOptimal ==
    [][(pc = "run" /\ timeslot < timeslots /\ timeslot < slot_keys) =>
        /\ TickReturned =>
              LET weight == WeightFrom(Returned, 1)
              IN  \A gn, gs \in Jobs \cup {-1} :
                      Admissible(gn, gs) =>
                          PriorityOf(gn) + PriorityOf(gs) <= weight
        /\ \A low, high \in Jobs : \A site \in Site :
              ScenarioA(low, high, site) =>
                  /\ TickReturned
                  /\ Returned = <<to_schedule_id(high, site)>>]_vars

\* ---------------------------------------------------------------- C6
\* C6 (empty slot): when no incomplete observation can run at any site in
\* slot t, tick(t) returns the empty list and no used_time changes.
C6_EmptySlotSucceeds ==
    [][(pc = "run" /\ timeslot < timeslots /\ timeslot < slot_keys
        /\ Vs = {}) =>
          /\ TickReturned
          /\ Returned = <<>>
          /\ used_time' = used_time]_vars

\* ---------------------------------------------------------------- C7
\* C7 (completion takes effect on the next tick): an observation whose
\* obs_time is one timeslot_length and that ran in slot 0 is done in every
\* later state and has no decision variable in a later formulation.
C7_DoneNextTick ==
    \A id \in Jobs :
        (/\ Len(scheduling) >= 1
         /\ obs_time[id] = timeslot_length
         /\ id \in JobsOf(scheduling[1]))
            => /\ is_done(id)
               /\ \A site \in Site : <<id, site>> \notin Vs

\* Before tick 1: the observation ran in slot 0, needed exactly one slot
\* of two seconds and could run at both sites in slot 1.
C7_Witness ==
    /\ timeslot = 1
    /\ timeslot_length = 2
    /\ \E id \in Jobs :
          /\ obs_time[id] = timeslot_length
          /\ id \in JobsOf(scheduling[1])
          /\ valid_site_times[id] = Site
          /\ priority[id] > 0

\* ---------------------------------------------------------------- C8
\* C8 (infeasible-slot recovery): when the solver has no solution for slot
\* t, tick(t) registers no work, returns the empty list without raising and
\* schedule() goes on with slot t+1.
C8_InfeasibleRecovery ==
    [][status' = "INFEASIBLE" /\ (timeslot' # timeslot \/ pc' # pc) =>
          /\ pc' = "run"
          /\ TickReturned
          /\ Returned = <<>>
          /\ used_time' = used_time
          /\ timeslot' = timeslot + 1]_vars

\* ---------------------------------------------------------------- C9
InvalidConfig ==
    \/ timeslots <= 0
    \/ timeslot_length <= 0
    \/ slot_keys > timeslots

\* C9 (invalid configuration is rejected at setup): with timeslots or
\* timeslot_length not positive, or an eligibility key outside
\* [0, timeslots), no tick runs and no used_time is modified.
C9_InvalidRejected ==
    InvalidConfig =>
        /\ timeslot = 0
        /\ scheduling = <<>>
        /\ status = "none"
        /\ pc # "raised"
        /\ \A id \in Jobs : used_time[id] = 0

\* ---------------------------------------------------------------- C10
\* C10 (identifier round trip): from_schedule_id(to_schedule_id(id, s)) is
\* (id, s), and no other (id, site) has the string of (id, s).
C10_RoundTrip ==
    /\ pc = "decoded" => sid_out = sid_arg
    /\ pc # "convert" =>
          /\ pc # "raised"
          /\ \A other \in ((0 - MaxId) .. MaxId) \X Site :
                to_schedule_id(other[1], other[2]) = sid_str => other = sid_arg

\* A three-digit id at GS went through both conversions.
C10_Witness ==
    /\ pc = "decoded"
    /\ sid_arg[1] >= 100
    /\ sid_arg[2] = "GS"
    /\ Len(sid_str) = 10

\* ---------------------------------------------------------------- C11
\* The id fields among the arguments that are no integer to int(): empty or
\* blank, with a character that is neither digit, sign nor blank, a bare
\* sign, two signs, a blank inside, or more digits than int() converts.
NonIntegerFields ==
    {<<>>, <<"x">>, <<"1", "x">>, <<"-">>, <<" ">>, <<"-", " ", "1">>,
     <<"1", " ", "1">>, <<"+", "-", "1">>,
     <<"1", LineTabulation, "1">>, <<NoBreakSpace>>,
     [i \in 1 .. 4301 |-> "1"]}

\* The string has too few fields, an id field that is no integer, or a site
\* label that names no Site.
Malformed(scheduler_id) ==
    LET fields == Split(scheduler_id)
    IN  \/ Len(fields) < 3
        \/ fields[2] \in NonIntegerFields
        \/ fields[3] \notin {<<"G", "N">>, <<"G", "S">>}

\* C11 (malformed identifier is a hard error): do_work on a string that does
\* not decode to an (id, site) pair raises and changes no used_time.
C11_MalformedRaises ==
    [][(pc = "call" /\ Malformed(sid_str)) =>
          /\ pc' = "raised"
          /\ used_time' = used_time]_vars

\* do_work raised on a string whose id field int() accepts (a blank, then
\* 1) and whose label names no site.
C11_Witness ==
    /\ pc = "raised"
    /\ sid_str = <<"o", "b", "s", "_", " ", "1", "_", "g", "n">>
    /\ used_time = [id \in Jobs |-> 0]

\* ---------------------------------------------------------------- C12
\* C12 (slot order): every tick of schedule() is the tick of the next slot,
\* 0, 1, ... in turn, its list is appended as entry timeslot of the schedule
\* and the earlier entries stay; the schedule returned has timeslots entries.
C12_SlotOrder ==
    [][/\ (timeslot' # timeslot \/ scheduling' # scheduling) =>
            /\ timeslot < timeslots
            /\ Len(scheduling) = timeslot
            /\ timeslot' = timeslot + 1
            /\ Len(scheduling') = timeslot + 1
            /\ SubSeq(scheduling', 1, timeslot) = scheduling
       /\ pc' = "returned" =>
            /\ timeslot' = timeslots
            /\ Len(scheduling') = timeslots]_vars

\* schedule() returned a schedule of two or more slots, the first two not
\* empty.
C12_Witness ==
    /\ pc = "returned"
    /\ Len(scheduling) = timeslots
    /\ timeslots >= 2
    /\ scheduling[1] # <<>>
    /\ scheduling[2] # <<>>

\* ---------------------------------------------------------------- C13
\* C13 (the simulation loop always completes all slots): whatever the solver
\* outcome of a slot, schedule() ends by returning, every slot processed.
C13_CompletesAllSlots ==
    pc # "run" => (pc = "returned" /\ Len(scheduling) = timeslots)

\* ---------------------------------------------------------------- C14
\* The order of the steps of a tick.
StepOrder ==
    {<<"idle", "advanced">>, <<"advanced", "formulated">>,
     <<"formulated", "solved">>, <<"solved", "idle">>}

\* C14 (tick step ordering): a tick advances the ledger, formulates, solves
\* and applies, in that order; observations.tick(t) is called once per tick
\* and before any variable exists; used_time changes only after the solve.
C14_StepOrdering ==
    [][/\ step' # step => <<step, step'>> \in StepOrder
       /\ hook_calls' # hook_calls =>
            /\ hook_calls' = Append(hook_calls, timeslot)
            /\ step = "idle"
            /\ model_vars = {}
            /\ model_vars' = {}
       /\ Len(hook_calls') = timeslot' + (IF step' = "idle" THEN 0 ELSE 1)
       /\ model_vars' # model_vars /\ model_vars' # {} =>
            /\ step = "advanced"
            /\ hook_calls[Len(hook_calls)] = timeslot
       /\ used_time' # used_time =>
            /\ step = "solved"
            /\ status = "OPTIMAL"]_vars

\* The second tick has solved a model with variables, after the two calls
\* of the hook.
C14_Witness ==
    /\ step = "solved"
    /\ hook_calls = <<0, 1>>
    /\ model_vars # {}
    /\ solution # {}
    /\ \E id \in Jobs : used_time[id] > 0

\* priority and obs_time never change, the eligibility read changes only
\* with the slot, and the formulation changes nothing of the ledger.
C16_TickFrame ==
    [][/\ \A id \in Jobs :
             used_time'[id] # used_time[id] =>
                 (TickReturned /\ id \in JobsOf(Returned))
       /\ Cardinality({id \in Jobs : used_time'[id] # used_time[id]}) <= 2
       /\ priority' = priority
       /\ obs_time' = obs_time
       /\ valid_site_times' # valid_site_times => timeslot' = timeslot + 1
       /\ step = "advanced" =>
             (used_time' = used_time /\ valid_site_times' = valid_site_times)]_vars

\* The first tick registered work for the one observation it returned and
\* for no other.
C16_Witness ==
    /\ step = "idle"
    /\ timeslot = 1
    /\ Len(scheduling[1]) = 1
    /\ \E id \in Jobs :
          /\ JobsOf(scheduling[1]) = {id}
          /\ used_time[id] = timeslot_length
          /\ \A other \in Jobs \ {id} : used_time[other] = 0

\* ---------------------------------------------------------------- C17
\* The slots so far whose returned list holds the observation.
SlotsWorked(id) ==
    {t \in 1 .. Len(scheduling) : id \in JobsOf(scheduling[t])}

\* C17 (progress accounting): in every state used_time of an observation is
\* timeslot_length times the number of slots whose list holds it.
C17_ProgressAccounting ==
    \A id \in Jobs :
        used_time[id] = timeslot_length * Cardinality(SlotsWorked(id))

\* After two slots one observation has worked in both and another in one;
\* the first slot held two names.
C17_Witness ==
    /\ timeslot = 2
    /\ Len(scheduling[1]) = 2
    /\ \E id, other \in Jobs :
          /\ used_time[id] = 2 * timeslot_length
          /\ used_time[other] = timeslot_length

\* ---------------------------------------------------------------- C18
\* C18 (bounded overshoot): in every state an observation with obs_time >= 0
\* has used_time < obs_time + timeslot_length.
C18_BoundedOvershoot ==
    \A id \in Jobs :
        obs_time[id] >= 0 => used_time[id] < obs_time[id] + timeslot_length

\* An observation has gone past its obs_time, by less than a slot.
C18_Witness ==
    \E id \in Jobs :
        /\ used_time[id] > obs_time[id]
        /\ used_time[id] = timeslot_length
        /\ id \in JobsOf(scheduling[1])

\* ---------------------------------------------------------------- C19
\* C19 (no avoidable idling): with all priorities positive, the list
\* tick(t) returns leaves no site idle while an incomplete observation that
\* can run at the site in slot t is left out of the list.
C19_NoAvoidableIdling ==
    [][(TickReturned /\ \A id \in Jobs : priority[id] > 0) =>
          \A site \in Site :
              (\A p \in PairsOf(Returned) : p[2] # site) =>
                  \A id \in Jobs :
                      (used_time[id] < obs_time[id]
                       /\ site \in valid_site_times[id])
                          => id \in JobsOf(Returned)]_vars

\* All priorities are positive and the first slot went to one observation
\* at GN, GS staying idle, with another observation left out.
C19_Witness ==
    /\ \A id \in Jobs : priority[id] > 0
    /\ timeslot = 1
    /\ Len(scheduling[1]) = 1
    /\ from_schedule_id(scheduling[1][1])[2] = "GN"
    /\ \E id \in Jobs : id \notin JobsOf(scheduling[1])

====
